---- MODULE Spec2Model ----
(***************************************************************************)
(* A model of the memory-augmented chat demo: the Memory Manager           *)
(* (memory.py), the Chat Orchestrator (llm.py) and the interactive shell   *)
(* (main.py).  The external memory store and the external completion       *)
(* client are the environment: every call to them is logged and its        *)
(* outcome (a result or a raised error) is chosen nondeterministically.    *)
(*                                                                         *)
(* Text is a sequence of one-character strings, so that strip, startswith, *)
(* split, lower and join are computed as Python computes them.             *)
(***************************************************************************)
EXTENDS Integers, Sequences, FiniteSets, TLC

VARIABLES
    memory_manager,   \* LLM.memory_manager is attached (TRUE) or None (FALSE)
    self_user_id,     \* LLM.user_id, the instance default
    search_limit,     \* MemoryManager.config.search_limit
    op,               \* the operation in progress (or the last one): name and arguments
    store_calls,      \* calls issued to the memory store during op, in order
    client_calls,     \* calls issued to the completion client during op, in order
    g,                \* the frame of the chat_with_memories generator
    yielded,          \* what the generator has produced to its caller during op
    ret,              \* how op ended: nothing yet, a returned value or a raised error
    shell             \* main(): position in the loop, the line read, what was printed

vars == <<memory_manager, self_user_id, search_limit, op, store_calls,
          client_calls, g, yielded, ret, shell>>

-----------------------------------------------------------------------------
(* Bounds of the model *)

\* the completion stream delivers at most this many chunks before it ends
MaxChunks == 2

\* the store returns at most this many results to one search
MaxResults == 1

(* Program constants *)

\* MemoryConfig.search_limit default
DefaultSearchLimit == 5

\* MemoryConfig.context_limit default
context_limit == 3

\* default of the max_results parameter of search_memories
DefaultMaxResults == 5

-----------------------------------------------------------------------------
(* Text *)

Text(S, n) == UNION {[1..k -> S] : k \in 0..n}

Min(a, b) == IF a <= b THEN a ELSE b

\* characters str.strip() removes and str.split(' ') does not all split at
Whitespace == {" ", "\t"}

RECURSIVE LStrip(_)
LStrip(s) == IF s # <<>> /\ Head(s) \in Whitespace THEN LStrip(Tail(s)) ELSE s

RECURSIVE RStrip(_)
RStrip(s) ==
    IF s # <<>> /\ s[Len(s)] \in Whitespace
    THEN RStrip(SubSeq(s, 1, Len(s) - 1)) ELSE s

\* str.strip()
Strip(s) == LStrip(RStrip(s))

\* str.startswith(c) for a one-character prefix
StartsWith(s, c) == s # <<>> /\ Head(s) = c

UpperCase == <<"A","B","C","D","E","F","G","H","I","J","K","L","M",
               "N","O","P","Q","R","S","T","U","V","W","X","Y","Z">>
LowerCase == <<"a","b","c","d","e","f","g","h","i","j","k","l","m",
               "n","o","p","q","r","s","t","u","v","w","x","y","z">>

LowerChar(c) ==
    IF \E i \in 1..26 : UpperCase[i] = c
    THEN LowerCase[CHOOSE i \in 1..26 : UpperCase[i] = c]
    ELSE c

\* str.lower()
Lower(s) == [i \in 1..Len(s) |-> LowerChar(s[i])]

\* str.split(' ', 1): cut at the first space character, if there is one
SplitSpace1(s) ==
    IF \E i \in 1..Len(s) : s[i] = " "
    THEN LET i == CHOOSE k \in 1..Len(s) :
                     s[k] = " " /\ \A j \in 1..(k - 1) : s[j] # " "
         IN <<SubSeq(s, 1, i - 1), SubSeq(s, i + 1, Len(s))>>
    ELSE <<s>>

RECURSIVE Join(_)
\* "".join(parts)
Join(parts) == IF parts = <<>> THEN <<>> ELSE Head(parts) \o Join(Tail(parts))

-----------------------------------------------------------------------------
(* Values *)

\* Optional[str] is a set with no element (None) or one element
None == {}
Some(v) == {v}
TheValue(o) == CHOOSE v \in o : TRUE

\* Python truthiness of an Optional[str]: None and "" are falsy
Truthy(o) == o # None /\ o # Some("")

UserIds == {"", "alice"}
OptUserIds == {None} \cup {Some(u) : u \in UserIds}

\* user_id or str(uuid.uuid4()): the constructor's default user id
ResolveInstanceUserId(o) == IF Truthy(o) THEN TheValue(o) ELSE "uuid4"

Messages == {<<>>, <<"h", "i">>}

Summary == <<"s", "u", "m", "m", "a", "r", "y">>

\* content fragments a stream chunk may carry; <<>> is a chunk without content
Fragments == {<<>>, <<"a">>, <<"b", "c">>}

\* the errors an external call may raise: an ordinary error or an interrupt
ErrorKinds == {"Exception", "KeyboardInterrupt"}

\* the outcomes of an external call that returns no value the model uses
Outcomes == {"ok"} \cup ErrorKinds

\* raw entries of a store search result: score, metadata, timestamp are optional
RawEntries == {[memory |-> "likes coffee", score |-> 91], [memory |-> "m2"]}

StoreResults == Text(RawEntries, MaxResults)

MaxResultsArgs == {0, DefaultMaxResults - 1, DefaultMaxResults + 2}

\* dict.get(key, default)
Get(m, key, default) == IF key \in DOMAIN m THEN m[key] ELSE default

NoRet == [kind |-> "none"]
Returned(v) == [kind |-> "return", val |-> v]
Raised(e) == [kind |-> "raise", val |-> e]

NoGen == [pc |-> "none"]
NoOp == [name |-> "none"]
ShellOff == [pc |-> "off"]

-----------------------------------------------------------------------------
(* The memory store and the completion client: the calls this layer issues, *)
(* each logged with its arguments and with outcome o, what the call did:    *)
(* "ok", the results of a search, or the error it raised.                   *)

SearchCall(query, user_id, limit, o) ==
    [call |-> "search", query |-> query, user_id |-> user_id, limit |-> limit,
     outcome |-> o]

AddCall(messages, user_id, o) ==
    [call |-> "add", messages |-> messages, user_id |-> user_id, outcome |-> o]

ClearCall(user_id, o) == [call |-> "clear", user_id |-> user_id, outcome |-> o]

CreateCall(messages, stream, o) ==
    [call |-> "create", messages |-> messages, stream |-> stream, outcome |-> o]

Msg(role, content) == [role |-> role, content |-> content]

-----------------------------------------------------------------------------
(* memory.py: MemoryManager.  Each operation is given the outcome o of its  *)
(* one store call and yields the calls it issues and how it ends.          *)

SearchOutcomes ==
    {[kind |-> "ok", results |-> r] : r \in StoreResults}
        \cup {[kind |-> "raise", error |-> e] : e \in ErrorKinds}

Effect(calls, r) == [calls |-> calls, ret |-> r]

\* the Record shape of search_memories
SearchRecord(m) ==
    [content |-> m.memory,
     metadata |-> Get(m, "metadata", <<>>),
     created_at |-> Get(m, "timestamp", None),
     relevance_score |-> Get(m, "score", 0)]

\* the Record shape of get_user_profile: no relevance score
ProfileRecord(m) ==
    [content |-> m.memory,
     metadata |-> Get(m, "metadata", <<>>),
     created_at |-> Get(m, "timestamp", None)]

MemoryManager_add_conversation(user_id, messages, o) ==
    Effect(<<AddCall(messages, user_id, o)>>,
           IF o = "ok" THEN Returned("memory_id") ELSE Raised(o))

MemoryManager_get_user_profile(user_id, o) ==
    Effect(<<SearchCall(Summary, user_id, search_limit, o)>>,
           IF o.kind = "ok"
           THEN Returned([recent_memories |->
                    [i \in 1..Len(o.results) |-> ProfileRecord(o.results[i])]])
           ELSE Raised(o.error))

MemoryManager_get_context(user_id, o) ==
    Effect(<<SearchCall(Summary, user_id, context_limit, o)>>,
           IF o.kind = "ok"
           THEN Returned(<<"Recent context:">> \o
                    [i \in 1..Len(o.results) |-> o.results[i].memory])
           ELSE Raised(o.error))

\* a bug: the caller's max_results is passed through unclamped
SearchLimitArg_Unclamped(max_results) == max_results

\* limit=min(max_results, self.config.search_limit)
SearchLimitArg(max_results) == Min(max_results, search_limit)

MemoryManager_search_memories(user_id, query, max_results, o) ==
    Effect(<<SearchCall(query, user_id, SearchLimitArg(max_results), o)>>,
           IF o.kind = "ok"
           THEN Returned([i \in 1..Len(o.results) |-> SearchRecord(o.results[i])])
           ELSE Raised(o.error))

\* a bug: "except Exception:" instead of the bare "except:"
MemoryManager_delete_user_ExceptException(user_id, o) ==
    Effect(<<ClearCall(user_id, o)>>,
           IF o = "ok" THEN Returned(TRUE)
           ELSE IF o = "Exception" THEN Returned(FALSE) ELSE Raised(o))

MemoryManager_delete_user(user_id, o) ==
    Effect(<<ClearCall(user_id, o)>>,
           IF o = "ok" THEN Returned(TRUE) ELSE Returned(FALSE))

-----------------------------------------------------------------------------
(* llm.py: LLM *)

\* a bug: the guard is missing
MemoryNotConfigured_NoGuard == FALSE

\* if not self.memory_manager
MemoryNotConfigured == ~memory_manager

LLM_get_user_profile(o) ==
    IF MemoryNotConfigured
    THEN Effect(<<>>, Raised("ValueError"))
    ELSE MemoryManager_get_user_profile(self_user_id, o)

LLM_search_memories(query, max_results, o) ==
    IF MemoryNotConfigured
    THEN Effect(<<>>, Raised("ValueError"))
    ELSE MemoryManager_search_memories(self_user_id, query, max_results, o)

\* user_id = user_id or self.user_id
EffectiveUserId(user_id) == IF Truthy(user_id) THEN TheValue(user_id) ELSE self_user_id

\* the system prompt: the configured prompt, then one line per retrieved memory
\* with its relevance (entry.get('score', 0.0), in hundredths)
SystemPrompt(results) ==
    [system_prompt |-> "system_prompt",
     memories_str |-> [i \in 1..Len(results) |->
                          [memory |-> results[i].memory,
                           relevance |-> Get(results[i], "score", 0)]]]

\* a bug: the last fragment is persisted instead of the joined reply
StreamedReply_LastFragment(collected_response) ==
    IF collected_response = <<>> THEN <<>>
    ELSE collected_response[Len(collected_response)]

\* "".join(collected_response)
StreamedReply(collected_response) == Join(collected_response)

\* a bug: the turn is rebuilt from the reply alone
TurnMessages_ReplyOnly(messages, assistant) == <<Msg("assistant", assistant)>>

\* messages.append({"role": "assistant", "content": ...})
TurnMessages(messages, assistant) == Append(messages, Msg("assistant", assistant))

\* a bug: the turn is stored whatever store_memory says
StoreStep_Always(assistant, o) ==
    [calls |-> <<AddCall(TurnMessages(g.messages, assistant), g.user_id, o)>>,
     error |-> IF o = "ok" THEN None ELSE Some(o)]

\* if store_memory: messages.append(...); self.memory_manager.memory.add(...)
StoreStep(assistant, o) ==
    IF op.store_memory
    THEN [calls |-> <<AddCall(TurnMessages(g.messages, assistant), g.user_id, o)>>,
          error |-> IF o = "ok" THEN None ELSE Some(o)]
    ELSE [calls |-> <<>>, error |-> None]

\* the frame of a generator that has not run yet
NewFrame ==
    [pc |-> "created", user_id |-> "", messages |-> <<>>, response |-> "none",
     collected_response |-> <<>>, assistant_response |-> <<>>, nchunks |-> 0]

\* calling chat_with_memories runs none of its body: it makes a generator
CreateGenerator(message, user_id, store_memory, stream) ==
    /\ op' = [name |-> "LLM.chat_with_memories", message |-> message,
              user_id |-> user_id, store_memory |-> store_memory,
              stream |-> stream]
    /\ g' = NewFrame
    /\ store_calls' = <<>>
    /\ client_calls' = <<>>
    /\ yielded' = <<>>
    /\ ret' = NoRet

\* the generator ends by raising e
GenRaise(e) ==
    /\ g' = [g EXCEPT !.pc = "raised"]
    /\ ret' = Raised(e)

\* first resumption: the guard, then the effective user id
GenStart ==
    /\ g.pc = "L96"
    /\ IF MemoryNotConfigured
       THEN GenRaise("ValueError")
       ELSE /\ g' = [g EXCEPT !.pc = "L102", !.user_id = EffectiveUserId(op.user_id)]
            /\ UNCHANGED ret
    /\ UNCHANGED <<memory_manager, self_user_id, search_limit, op, store_calls,
                   client_calls, yielded, shell>>

\* retrieve relevant memories and prepare the messages
GenSearch ==
    /\ g.pc = "L102"
    /\ \E o \in SearchOutcomes :
          /\ store_calls' = Append(store_calls,
                 SearchCall(op.message, g.user_id, context_limit, o))
          /\ IF o.kind = "raise"
             THEN GenRaise(o.error)
             ELSE /\ g' = [g EXCEPT !.pc = "L122",
                                    !.messages = <<Msg("system", SystemPrompt(o.results)),
                                                   Msg("user", op.message)>>]
                  /\ UNCHANGED ret
    /\ UNCHANGED <<memory_manager, self_user_id, search_limit, op, client_calls,
                   yielded, shell>>

\* stream: the completion call that opens the stream
GenCreateStream ==
    /\ g.pc = "L122"
    /\ op.stream
    /\ \E o \in Outcomes :
          /\ client_calls' = Append(client_calls, CreateCall(g.messages, TRUE, o))
          /\ IF o = "ok"
             THEN g' = [g EXCEPT !.pc = "L132", !.response = "open"] /\ UNCHANGED ret
             ELSE GenRaise(o)
    /\ UNCHANGED <<memory_manager, self_user_id, search_limit, op, store_calls,
                   yielded, shell>>

\* for chunk in response: one chunk is read, or the stream ends, or it raises
GenChunk ==
    /\ g.pc = "L132"
    /\ \/ /\ g' = [g EXCEPT !.pc = "L139", !.response = "exhausted"]
          /\ UNCHANGED <<ret, yielded>>
       \/ \E e \in ErrorKinds :
             /\ g' = [g EXCEPT !.pc = "raised", !.response = "failed"]
             /\ ret' = Raised(e)
             /\ UNCHANGED yielded
       \/ /\ g.nchunks < MaxChunks
          /\ \E content \in Fragments :
                IF content # <<>>
                THEN /\ g' = [g EXCEPT !.pc = "L136",
                                       !.nchunks = @ + 1,
                                       !.collected_response = Append(@, content)]
                     /\ yielded' = Append(yielded, content)
                ELSE /\ g' = [g EXCEPT !.nchunks = @ + 1]
                     /\ UNCHANGED yielded
          /\ UNCHANGED ret
    /\ UNCHANGED <<memory_manager, self_user_id, search_limit, op, store_calls,
                   client_calls, shell>>

\* after the stream: store the complete conversation if requested, then return
GenStoreStream ==
    /\ g.pc = "L139"
    /\ \E o \in Outcomes :
          LET s == StoreStep(StreamedReply(g.collected_response), o) IN
          /\ store_calls' = store_calls \o s.calls
          /\ IF s.error = None
             THEN /\ g' = [g EXCEPT !.pc = "done"]
                  /\ ret' = Returned("StopIteration")
             ELSE GenRaise(TheValue(s.error))
    /\ UNCHANGED <<memory_manager, self_user_id, search_limit, op, client_calls,
                   yielded, shell>>

\* not stream: the one blocking completion call
GenCreateBlocking ==
    /\ g.pc = "L122"
    /\ ~op.stream
    /\ \E o \in Outcomes :
          /\ client_calls' = Append(client_calls, CreateCall(g.messages, FALSE, o))
          /\ IF o = "ok"
             THEN /\ \E reply \in Fragments :
                        g' = [g EXCEPT !.pc = "L153", !.assistant_response = reply]
                  /\ UNCHANGED ret
             ELSE GenRaise(o)
    /\ UNCHANGED <<memory_manager, self_user_id, search_limit, op, store_calls,
                   yielded, shell>>

\* a bug: an error of the store write is swallowed and the reply still produced
GenStoreBlocking_SwallowStoreError ==
    /\ g.pc = "L153"
    /\ \E o \in Outcomes :
          LET s == StoreStep(g.assistant_response, o) IN
          /\ store_calls' = store_calls \o s.calls
          /\ g' = [g EXCEPT !.pc = "L157"]
          /\ yielded' = Append(yielded, g.assistant_response)
          /\ UNCHANGED ret
    /\ UNCHANGED <<memory_manager, self_user_id, search_limit, op, client_calls,
                   shell>>

\* not stream: store the conversation if requested, then yield the reply
GenStoreBlocking ==
    /\ g.pc = "L153"
    /\ \E o \in Outcomes :
          LET s == StoreStep(g.assistant_response, o) IN
          /\ store_calls' = store_calls \o s.calls
          /\ IF s.error = None
             THEN /\ g' = [g EXCEPT !.pc = "L157"]
                  /\ yielded' = Append(yielded, g.assistant_response)
                  /\ UNCHANGED ret
             ELSE GenRaise(TheValue(s.error)) /\ UNCHANGED yielded
    /\ UNCHANGED <<memory_manager, self_user_id, search_limit, op, client_calls,
                   shell>>

\* the generator is suspended, or not started: its caller has control
Suspended == g.pc \in {"created", "L136", "L157"}

\* where next() resumes the generator; after the last yield the body ends
ResumePc == CASE g.pc = "created" -> "L96"
              [] g.pc = "L136" -> "L132"
              [] g.pc = "L157" -> "done"

\* next(generator)
Resume ==
    /\ Suspended
    /\ g' = [g EXCEPT !.pc = ResumePc]
    /\ ret' = IF g.pc = "L157" THEN Returned("StopIteration") ELSE ret

\* the generator is closed or dropped while suspended: GeneratorExit is raised
\* at the yield and nothing after it runs
Close ==
    /\ Suspended
    /\ g' = [g EXCEPT !.pc = "closed"]

-----------------------------------------------------------------------------
(* A client of the library: it calls the operations of LLM and of          *)
(* MemoryManager one at a time, with any arguments, and consumes or        *)
(* abandons the generator chat_with_memories gives it.                     *)

\* no operation is in progress
Idle == g.pc \in {"none", "done", "raised", "closed"}

\* an operation that runs to its end in one call
Atomic(call, effect) ==
    /\ op' = call
    /\ store_calls' = effect.calls
    /\ client_calls' = <<>>
    /\ g' = NoGen
    /\ yielded' = <<>>
    /\ ret' = effect.ret

Call_chat_with_memories ==
    /\ shell.pc = "off"
    /\ Idle
    /\ \E message \in Messages, user_id \in OptUserIds,
          store_memory \in BOOLEAN, stream \in BOOLEAN :
          CreateGenerator(message, user_id, store_memory, stream)
    /\ UNCHANGED <<memory_manager, self_user_id, search_limit, shell>>

CallerNext ==
    /\ shell.pc = "off"
    /\ Resume
    /\ UNCHANGED <<memory_manager, self_user_id, search_limit, op, store_calls,
                   client_calls, yielded, shell>>

CallerClose ==
    /\ shell.pc = "off"
    /\ Close
    /\ ret' = [kind |-> "closed"]
    /\ UNCHANGED <<memory_manager, self_user_id, search_limit, op, store_calls,
                   client_calls, yielded, shell>>

Call_LLM_get_user_profile ==
    /\ shell.pc = "off"
    /\ Idle
    /\ \E o \in SearchOutcomes :
          Atomic([name |-> "LLM.get_user_profile", user_id |-> None],
                 LLM_get_user_profile(o))
    /\ UNCHANGED <<memory_manager, self_user_id, search_limit, shell>>

Call_LLM_search_memories ==
    /\ shell.pc = "off"
    /\ Idle
    /\ \E query \in Messages, max_results \in MaxResultsArgs, o \in SearchOutcomes :
          Atomic([name |-> "LLM.search_memories", user_id |-> None,
                  query |-> query, max_results |-> max_results],
                 LLM_search_memories(query, max_results, o))
    /\ UNCHANGED <<memory_manager, self_user_id, search_limit, shell>>

Call_MemoryManager_search_memories ==
    /\ shell.pc = "off"
    /\ Idle
    /\ memory_manager
    /\ \E user_id \in UserIds, query \in Messages, max_results \in MaxResultsArgs,
          o \in SearchOutcomes :
          Atomic([name |-> "MemoryManager.search_memories",
                  user_id |-> Some(user_id),
                  query |-> query, max_results |-> max_results],
                 MemoryManager_search_memories(user_id, query, max_results, o))
    /\ UNCHANGED <<memory_manager, self_user_id, search_limit, shell>>

Call_MemoryManager_get_user_profile ==
    /\ shell.pc = "off"
    /\ Idle
    /\ memory_manager
    /\ \E user_id \in UserIds, o \in SearchOutcomes :
          Atomic([name |-> "MemoryManager.get_user_profile",
                  user_id |-> Some(user_id)],
                 MemoryManager_get_user_profile(user_id, o))
    /\ UNCHANGED <<memory_manager, self_user_id, search_limit, shell>>

Call_MemoryManager_get_context ==
    /\ shell.pc = "off"
    /\ Idle
    /\ memory_manager
    /\ \E user_id \in UserIds, o \in SearchOutcomes :
          Atomic([name |-> "MemoryManager.get_context",
                  user_id |-> Some(user_id)],
                 MemoryManager_get_context(user_id, o))
    /\ UNCHANGED <<memory_manager, self_user_id, search_limit, shell>>

Call_MemoryManager_add_conversation ==
    /\ shell.pc = "off"
    /\ Idle
    /\ memory_manager
    /\ \E user_id \in UserIds, message \in Messages, o \in Outcomes :
          Atomic([name |-> "MemoryManager.add_conversation",
                  user_id |-> Some(user_id)],
                 MemoryManager_add_conversation(user_id,
                     <<Msg("user", message)>>, o))
    /\ UNCHANGED <<memory_manager, self_user_id, search_limit, shell>>

Call_MemoryManager_delete_user ==
    /\ shell.pc = "off"
    /\ Idle
    /\ memory_manager
    /\ \E user_id \in UserIds, o \in Outcomes :
          Atomic([name |-> "MemoryManager.delete_user",
                  user_id |-> Some(user_id)],
                 MemoryManager_delete_user(user_id, o))
    /\ UNCHANGED <<memory_manager, self_user_id, search_limit, shell>>

\* the values search_limit takes in the model: the default and a smaller one
SearchLimits == {2, DefaultSearchLimit}

\* after construction: LLM(memory_manager=..., user_id=...) and MemoryConfig
Init ==
    /\ memory_manager \in BOOLEAN
    /\ self_user_id \in {ResolveInstanceUserId(o) : o \in OptUserIds}
    /\ search_limit \in SearchLimits
    /\ op = NoOp
    /\ store_calls = <<>>
    /\ client_calls = <<>>
    /\ g = NoGen
    /\ yielded = <<>>
    /\ ret = NoRet
    /\ shell = ShellOff

Next ==
    \/ Call_chat_with_memories
    \/ CallerNext
    \/ CallerClose
    \/ GenStart
    \/ GenSearch
    \/ GenCreateStream
    \/ GenChunk
    \/ GenStoreStream
    \/ GenCreateBlocking
    \/ GenStoreBlocking
    \/ Call_LLM_get_user_profile
    \/ Call_LLM_search_memories
    \/ Call_MemoryManager_search_memories
    \/ Call_MemoryManager_get_user_profile
    \/ Call_MemoryManager_get_context
    \/ Call_MemoryManager_add_conversation
    \/ Call_MemoryManager_delete_user

Spec == Init /\ [][Next]_vars

-----------------------------------------------------------------------------
(* main.py: the interactive shell.  One iteration of "while True" reads a  *)
(* line, dispatches it, and ends at the next input(), or leaves the loop.  *)

\* the lines input() returns in the model
Lines ==
    { <<"/", "e", "x", "i", "t">>,
      <<"/", "E", "x", "I", "T">>,
      <<" ", "/", "e", "x", "i", "t", " ">>,
      <<"/", "e", "x", "i", "t", "\t", "x">>,
      <<"/", "e", "x", "i", "t", " ", "x">>,
      <<"/", "s", "e", "a", "r", "c", "h", " ", "q">>,
      <<"/", "S", "e", "a", "r", "c", "h", " ", " ", "q", " ", "r">>,
      <<"/", "s", "e", "a", "r", "c", "h">>,
      <<"/", "s", "e", "a", "r", "c", "h", " ">>,
      <<"/", "p", "r", "o", "f", "i", "l", "e">>,
      <<"/", "c", "l", "e", "a", "r">>,
      <<"/", "C", "l", "e", "a", "r", " ", "x">>,
      <<"/", "x">>,
      <<"/">>,
      <<"/", " ", "e", "x", "i", "t">>,
      <<"h", "i">>,
      <<"\t", "h", "i", " ">>,
      <<"e", "x", "i", "t">>,
      <<>> }

Digits == <<"0", "1", "2", "3", "4", "5", "6", "7", "8", "9">>

\* f"{x:.2f}" of a score given in hundredths
Fmt2(score) ==
    <<Digits[(score \div 100) + 1], ".",
      Digits[((score % 100) \div 10) + 1], Digits[(score % 10) + 1]>>

RECURSIVE MemoryLines(_)
\* the lines print_memories prints for its records
MemoryLines(memories) ==
    IF memories = <<>> THEN <<>>
    ELSE LET m == Head(memories) IN
         <<<<"Content: ", m.content>>>>
            \o (IF m.metadata # <<>> THEN <<<<"Metadata: ">>>> ELSE <<>>)
            \o (IF m.created_at # None THEN <<<<"Created: ">>>> ELSE <<>>)
            \o <<<<"Relevance: ">> \o Fmt2(m.relevance_score)>>
            \o MemoryLines(Tail(memories))

print_memories(memories) ==
    IF memories = <<>>
    THEN <<<<"No memories found.">>>>
    ELSE <<<<"Relevant Memories:">>>> \o MemoryLines(memories)

RECURSIVE ProfileLines(_)
ProfileLines(memories) ==
    IF memories = <<>> THEN <<>>
    ELSE LET m == Head(memories) IN
         <<<<"Content: ", m.content>>>>
            \o (IF m.metadata # <<>> THEN <<<<"Metadata: ">>>> ELSE <<>>)
            \o (IF m.created_at # None THEN <<<<"Created: ">>>> ELSE <<>>)
            \o ProfileLines(Tail(memories))

print_profile(profile) ==
    <<<<"User Profile:">>>> \o
    (IF profile.recent_memories = <<>>
     THEN <<<<"No recent memories found.">>>>
     ELSE <<<<"Recent Memories:">>>> \o ProfileLines(profile.recent_memories))

Help == <<"Unknown command. Available commands:">>

\* command = user_input[1:].split(' ', 1)
Command(user_input) == SplitSpace1(Tail(user_input))

\* a bug: the command word is compared as typed, without .lower()
Branch_CaseSensitive(user_input) ==
    IF ~StartsWith(user_input, "/") THEN "chat"
    ELSE LET command == Command(user_input)
             cmd == command[1]
         IN IF cmd = <<"e", "x", "i", "t">> THEN "exit"
            ELSE IF cmd = <<"s", "e", "a", "r", "c", "h">> /\ Len(command) > 1
                 THEN "search"
            ELSE IF cmd = <<"p", "r", "o", "f", "i", "l", "e">> THEN "profile"
            ELSE IF cmd = <<"c", "l", "e", "a", "r">> THEN "clear"
            ELSE "help"

\* the branch of the if/elif chain the stripped line selects
Branch(user_input) ==
    IF ~StartsWith(user_input, "/") THEN "chat"
    ELSE LET command == Command(user_input)
             cmd == Lower(command[1])
         IN IF cmd = <<"e", "x", "i", "t">> THEN "exit"
            ELSE IF cmd = <<"s", "e", "a", "r", "c", "h">> /\ Len(command) > 1
                 THEN "search"
            ELSE IF cmd = <<"p", "r", "o", "f", "i", "l", "e">> THEN "profile"
            ELSE IF cmd = <<"c", "l", "e", "a", "r">> THEN "clear"
            ELSE "help"

Printed(sh, lines) == [sh EXCEPT !.out = @ \o lines]

\* a bug: only KeyboardInterrupt is handled, an Exception leaves main()
LoopCatch_NoExceptException(sh, e) ==
    IF e = "KeyboardInterrupt"
    THEN [sh EXCEPT !.pc = "exited", !.caught = e, !.out = Append(@, <<"Goodbye!">>)]
    ELSE [sh EXCEPT !.pc = "crashed", !.caught = "none"]

\* the handlers of the loop's try: an interrupt says goodbye and breaks, any
\* other error is printed and the loop goes on to the next input()
LoopCatch(sh, e) ==
    IF e = "KeyboardInterrupt"
    THEN [sh EXCEPT !.pc = "exited", !.caught = e, !.out = Append(@, <<"Goodbye!">>)]
    ELSE [sh EXCEPT !.pc = "input", !.caught = e, !.out = Append(@, <<"Error: ", e>>)]

\* the end of an iteration whose call ended as r: it printed lines, or raised
EndIteration(sh, r, lines) ==
    IF r.kind = "raise" THEN LoopCatch(sh, r.val)
    ELSE [Printed(sh, lines) EXCEPT !.pc = "input"]

\* user_input = input("\nYou: ").strip(), or input() raises
ShellInput ==
    /\ shell.pc = "input"
    /\ \/ \E raw \in Lines :
             /\ shell' = [pc |-> "dispatch", raw |-> raw,
                          user_input |-> Strip(raw), out |-> <<>>,
                          caught |-> "none"]
             /\ op' = NoOp
             /\ ret' = NoRet
       \/ \E e \in ErrorKinds :
             /\ shell' = LoopCatch([shell EXCEPT !.out = <<>>, !.caught = "none"], e)
             /\ op' = [name |-> "input"]
             /\ ret' = Raised(e)
    /\ store_calls' = <<>>
    /\ client_calls' = <<>>
    /\ g' = NoGen
    /\ yielded' = <<>>
    /\ UNCHANGED <<memory_manager, self_user_id, search_limit>>

\* /exit
ShellExit ==
    /\ shell.pc = "dispatch"
    /\ Branch(shell.user_input) = "exit"
    /\ op' = [name |-> "exit"]
    /\ shell' = [Printed(shell, <<<<"Goodbye!">>>>) EXCEPT !.pc = "exited"]
    /\ UNCHANGED <<memory_manager, self_user_id, search_limit, store_calls,
                   client_calls, g, yielded, ret>>

\* /search <query>
ShellSearch ==
    /\ shell.pc = "dispatch"
    /\ Branch(shell.user_input) = "search"
    /\ LET query == Command(shell.user_input)[2] IN
       \E o \in SearchOutcomes :
          LET e == LLM_search_memories(query, DefaultMaxResults, o) IN
          /\ op' = [name |-> "LLM.search_memories", user_id |-> None,
                    query |-> query, max_results |-> DefaultMaxResults]
          /\ store_calls' = e.calls
          /\ ret' = e.ret
          /\ shell' = EndIteration(
                         Printed(shell, <<<<"Searching memories for: ">> \o query>>),
                         e.ret,
                         IF e.ret.kind = "return" THEN print_memories(e.ret.val)
                         ELSE <<>>)
    /\ UNCHANGED <<memory_manager, self_user_id, search_limit, client_calls, g,
                   yielded>>

\* /profile
ShellProfile ==
    /\ shell.pc = "dispatch"
    /\ Branch(shell.user_input) = "profile"
    /\ \E o \in SearchOutcomes :
          LET e == LLM_get_user_profile(o) IN
          /\ op' = [name |-> "LLM.get_user_profile", user_id |-> None]
          /\ store_calls' = e.calls
          /\ ret' = e.ret
          /\ shell' = EndIteration(shell, e.ret,
                         IF e.ret.kind = "return" THEN print_profile(e.ret.val)
                         ELSE <<>>)
    /\ UNCHANGED <<memory_manager, self_user_id, search_limit, client_calls, g,
                   yielded>>

\* /clear
ShellClear ==
    /\ shell.pc = "dispatch"
    /\ Branch(shell.user_input) = "clear"
    /\ \E o \in Outcomes :
          LET e == MemoryManager_delete_user(self_user_id, o) IN
          /\ op' = [name |-> "MemoryManager.delete_user",
                    user_id |-> Some(self_user_id)]
          /\ store_calls' = e.calls
          /\ ret' = e.ret
          /\ shell' = EndIteration(shell, e.ret,
                         IF e.ret.kind = "return" /\ e.ret.val
                         THEN <<<<"Chat history cleared.">>>>
                         ELSE <<<<"Failed to clear chat history.">>>>)
    /\ UNCHANGED <<memory_manager, self_user_id, search_limit, client_calls, g,
                   yielded>>

\* any other command, and /search without a query
ShellHelp ==
    /\ shell.pc = "dispatch"
    /\ Branch(shell.user_input) = "help"
    /\ op' = [name |-> "help"]
    /\ shell' = [Printed(shell, <<Help>>) EXCEPT !.pc = "input"]
    /\ UNCHANGED <<memory_manager, self_user_id, search_limit, store_calls,
                   client_calls, g, yielded, ret>>

\* regular chat: llm.chat_with_memories(user_input, stream=True)
ShellChat ==
    /\ shell.pc = "dispatch"
    /\ Branch(shell.user_input) = "chat"
    /\ CreateGenerator(shell.user_input, None, TRUE, TRUE)
    /\ shell' = [Printed(shell, <<<<"Assistant: ">>>>) EXCEPT !.pc = "chat"]
    /\ UNCHANGED <<memory_manager, self_user_id, search_limit>>

\* for response in ...: print(response, end=""): print what was yielded, if
\* anything was, and ask the generator for the next fragment
ShellFor ==
    /\ shell.pc = "chat"
    /\ Resume
    /\ shell' = IF g.pc = "created" THEN shell
                ELSE Printed(shell, <<yielded[Len(yielded)]>>)
    /\ UNCHANGED <<memory_manager, self_user_id, search_limit, op, store_calls,
                   client_calls, yielded>>

\* an interrupt arrives while main() prints a fragment: the generator is
\* left suspended and dropped
ShellInterrupted ==
    /\ shell.pc = "chat"
    /\ g.pc = "L136"
    /\ Close
    /\ ret' = [kind |-> "closed"]
    /\ shell' = LoopCatch(shell, "KeyboardInterrupt")
    /\ UNCHANGED <<memory_manager, self_user_id, search_limit, op, store_calls,
                   client_calls, yielded>>

\* the generator raised: the error reaches the handlers of the loop
ShellChatRaised ==
    /\ shell.pc = "chat"
    /\ g.pc = "raised"
    /\ shell' = LoopCatch(shell, ret.val)
    /\ g' = [g EXCEPT !.pc = "finalized"]
    /\ UNCHANGED <<memory_manager, self_user_id, search_limit, op, store_calls,
                   client_calls, yielded, ret>>

\* the generator is exhausted: print() and the next iteration
ShellChatDone ==
    /\ shell.pc = "chat"
    /\ g.pc = "done"
    /\ shell' = [Printed(shell, <<<<"\n">>>>) EXCEPT !.pc = "input"]
    /\ UNCHANGED <<memory_manager, self_user_id, search_limit, op, store_calls,
                   client_calls, g, yielded, ret>>

\* main(): MemoryManager(), LLM.create_silicon_flow(memory_manager, "demo_user")
ShellInit ==
    /\ memory_manager = TRUE
    /\ self_user_id = ResolveInstanceUserId(Some("demo_user"))
    /\ search_limit \in SearchLimits
    /\ op = NoOp
    /\ store_calls = <<>>
    /\ client_calls = <<>>
    /\ g = NoGen
    /\ yielded = <<>>
    /\ ret = NoRet
    /\ shell = [pc |-> "input", raw |-> <<>>, user_input |-> <<>>,
                out |-> <<>>, caught |-> "none"]

ShellNext ==
    \/ ShellInput
    \/ ShellExit
    \/ ShellSearch
    \/ ShellProfile
    \/ ShellClear
    \/ ShellHelp
    \/ ShellChat
    \/ ShellFor
    \/ ShellInterrupted
    \/ ShellChatRaised
    \/ ShellChatDone
    \/ GenStart
    \/ GenSearch
    \/ GenCreateStream
    \/ GenChunk
    \/ GenStoreStream

ShellSpec == ShellInit /\ [][ShellNext]_vars

-----------------------------------------------------------------------------
(* Properties of the library (checked under Spec) *)

IsChat == op.name = "LLM.chat_with_memories"

\* the write calls issued to the store during the operation
Writes == SelectSeq(store_calls, LAMBDA c : c.call = "add")

\* the turn has run to its end: the generator's body has returned
TurnCompleted == IsChat /\ g.pc = "done"

\* the last message of a write
LastMessage(c) == c.messages[Len(c.messages)]

\* C1: a chat_with_memories turn with store_memory=False, streaming or not,
\* issues no write to the store in any state of the turn (running, completed,
\* abandoned or failed); the store calls of the turn are the one search (at
\* most one call, which is a search, and exactly one once the turn completed).
C1_NoWriteWithoutStoreMemory ==
    (IsChat /\ ~op.store_memory) =>
        /\ Writes = <<>>
        /\ Len(store_calls) <= 1
        /\ \A i \in 1..Len(store_calls) : store_calls[i].call = "search"
        /\ (g.pc \in {"L122", "L132", "L136", "L139", "L153", "L157", "done"}
               => Len(store_calls) = 1)

\* a streamed turn with store_memory=False that delivered fragments and completed
C1_Witness ==
    /\ TurnCompleted
    /\ ~op.store_memory
    /\ op.stream
    /\ Len(yielded) = 2
    /\ Len(store_calls) = 1

\* C2: in a streamed turn with store_memory=True a write is issued only once
\* the stream is exhausted, and the assistant content it persists is the
\* concatenation, in order, of all the fragments yielded to the caller; while
\* the stream is not exhausted (still open, abandoned by the caller, or failed
\* mid-stream) no write has been issued.
C2_StreamWriteAfterExhaustion ==
    (IsChat /\ op.stream /\ op.store_memory) =>
        /\ (g.response # "exhausted" => Writes = <<>>)
        /\ (g.pc \in {"created", "L96", "L102", "L122", "L132", "L136", "L139",
                      "closed"} => Writes = <<>>)
        /\ \A i \in 1..Len(Writes) :
              /\ LastMessage(Writes[i]).role = "assistant"
              /\ LastMessage(Writes[i]).content = Join(yielded)

\* a streamed turn that yielded two fragments and then persisted their join
C2_Witness ==
    /\ TurnCompleted
    /\ op.stream
    /\ op.store_memory
    /\ Len(yielded) = 2
    /\ Len(Writes) = 1
    /\ yielded[1] # yielded[2]

\* C4: every write of a chat turn carries the whole turn, [system, user,
\* assistant] in this order, the user message being the caller's message and
\* the assistant message the reply produced to the caller; a turn issues at
\* most one write, and a turn that completes with store_memory=True exactly one.
C4_OneWritePerTurn ==
    IsChat =>
        /\ Len(Writes) <= 1
        /\ \A i \in 1..Len(Writes) :
              LET m == Writes[i].messages IN
              /\ Len(m) = 3
              /\ m[1].role = "system"
              /\ m[2] = Msg("user", op.message)
              /\ m[3].role = "assistant"
              /\ (Writes[i].outcome = "ok" => m[3].content = Join(yielded))
        /\ ((op.store_memory /\ (g.pc = "done" \/ g.pc = "L157"))
               => Len(Writes) = 1)

\* a non-streamed turn that completed and persisted its one write
C4_Witness ==
    /\ TurnCompleted
    /\ ~op.stream
    /\ op.store_memory
    /\ Len(Writes) = 1
    /\ Writes[1].messages[3].content # <<>>

\* C5: with no Memory Manager attached, chat_with_memories, get_user_profile
\* and search_memories of LLM end by raising the memory-not-configured error
\* (ValueError) as soon as their body runs, and nothing happened before: no
\* store call, no completion call, no fragment produced.
C5_MemoryNotConfiguredFailsFirst ==
    (~memory_manager /\ op.name \in {"LLM.chat_with_memories",
                                     "LLM.get_user_profile",
                                     "LLM.search_memories"}) =>
        /\ store_calls = <<>>
        /\ client_calls = <<>>
        /\ yielded = <<>>
        /\ (IsChat => g.pc \in {"created", "L96", "closed", "raised"})
        /\ ((~IsChat \/ g.pc = "raised") => ret = Raised("ValueError"))

\* chat_with_memories was started without a Memory Manager and has failed
C5_Witness ==
    /\ ~memory_manager
    /\ IsChat
    /\ g.pc = "raised"

\* the searches of the store issued by a search_memories operation
IsSearchMemories ==
    /\ op.name \in {"MemoryManager.search_memories", "LLM.search_memories"}
    /\ memory_manager

\* C8: search_memories(user_id, q, max_results=N) issues exactly one call to
\* the store, a search for q whose limit is at most N and at most
\* config.search_limit; when the store returns no result it returns the
\* empty sequence (and in general one record per result), not an error.
C8_SearchLimitClamped ==
    IsSearchMemories =>
        /\ Len(store_calls) = 1
        /\ store_calls[1].call = "search"
        /\ store_calls[1].query = op.query
        /\ store_calls[1].limit <= op.max_results
        /\ store_calls[1].limit <= search_limit
        /\ (store_calls[1].outcome.kind = "ok" =>
               /\ ret.kind = "return"
               /\ Len(ret.val) = Len(store_calls[1].outcome.results)
               /\ (store_calls[1].outcome.results = <<>> => ret.val = <<>>))

\* a search asking for more than search_limit results, answered with none
C8_Witness ==
    /\ op.name = "MemoryManager.search_memories"
    /\ op.max_results > search_limit
    /\ store_calls[1].limit = search_limit
    /\ store_calls[1].outcome.kind = "ok"
    /\ store_calls[1].outcome.results = <<>>
    /\ ret = Returned(<<>>)

\* C10: in a non-streamed turn with store_memory=True the write precedes the
\* reply: whenever the caller has received the reply, the write has been
\* issued and has succeeded; and when the write raised, the turn ended with
\* that error and the caller received nothing.  In a streamed turn the write
\* is attempted with every fragment already delivered, so a failing write
\* leaves the caller with the whole reply.
C10_WriteBeforeReply ==
    (IsChat /\ op.store_memory) =>
        /\ (~op.stream /\ yielded # <<>> =>
               /\ Len(Writes) = 1
               /\ Writes[1].outcome = "ok"
               /\ Writes[1].messages[3].content = yielded[1])
        /\ (~op.stream =>
               \A i \in 1..Len(Writes) :
                   Writes[i].outcome # "ok" =>
                       /\ yielded = <<>>
                       /\ g.pc = "raised"
                       /\ ret = Raised(Writes[i].outcome))
        /\ (op.stream =>
               \A i \in 1..Len(Writes) : yielded = g.collected_response)

\* a non-streamed turn whose write raised: no reply reached the caller
C10_Witness ==
    /\ IsChat
    /\ ~op.stream
    /\ op.store_memory
    /\ Len(Writes) = 1
    /\ Writes[1].outcome = "Exception"
    /\ g.pc = "raised"
    /\ yielded = <<>>

\* the user id the operation is documented to use: the explicit argument if
\* one was given, else the instance default
DocumentedUserId ==
    CASE IsChat -> IF op.user_id # None THEN TheValue(op.user_id) ELSE self_user_id
      [] op.name \in {"LLM.get_user_profile", "LLM.search_memories"} -> self_user_id
      [] OTHER -> TheValue(op.user_id)

\* C3: every store call (search, add, clear) an operation issues carries the
\* effective user id of that operation: for chat_with_memories the explicit
\* user_id argument if given, else the instance default; for get_user_profile
\* and search_memories of LLM the instance default; for the operations of
\* MemoryManager their user_id argument.
C3_ScopedToOneUser ==
    op.name # "none" =>
        \A i \in 1..Len(store_calls) : store_calls[i].user_id = DocumentedUserId

\* what the code does hold to (C3, first and last part): all the store calls
\* of one operation carry one and the same user id, the one line 99 resolves
C3_OneUserPerOperation ==
    IsChat =>
        \A i \in 1..Len(store_calls) : store_calls[i].user_id = g.user_id

-----------------------------------------------------------------------------
(* Properties of the shell (checked under ShellSpec) *)

\* the iteration has dispatched its line
Dispatched == shell.pc \notin {"off", "dispatch"} /\ op.name \notin {"none", "input"}

\* the branch of the loop body the iteration took, by the call it made
BranchTaken ==
    CASE op.name = "exit" -> "exit"
      [] op.name = "LLM.search_memories" -> "search"
      [] op.name = "LLM.get_user_profile" -> "profile"
      [] op.name = "MemoryManager.delete_user" -> "clear"
      [] op.name = "help" -> "help"
      [] op.name = "LLM.chat_with_memories" -> "chat"

\* where the first character of s that is in delims stands, Len(s) + 1 if none
FirstDelim(s, delims) ==
    IF \E i \in 1..Len(s) : s[i] \in delims
    THEN CHOOSE i \in 1..Len(s) :
             s[i] \in delims /\ \A j \in 1..(i - 1) : s[j] \notin delims
    ELSE Len(s) + 1

\* the first token of s, delimited by delims
FirstToken(s, delims) == SubSeq(s, 1, FirstDelim(s, delims) - 1)

\* what follows the delimiter that ends the first token
AfterToken(s, delims) == SubSeq(s, FirstDelim(s, delims) + 1, Len(s))

\* the action a line selects: chat without a leading "/", else by the first
\* token after the "/", case-insensitively; search needs a query
Selected(line, delims) ==
    IF line = <<>> \/ line[1] # "/" THEN "chat"
    ELSE LET t == Lower(FirstToken(Tail(line), delims))
             q == AfterToken(Tail(line), delims)
         IN CASE t = <<"e", "x", "i", "t">> -> "exit"
              [] t = <<"s", "e", "a", "r", "c", "h">> /\ q # <<>> -> "search"
              [] t = <<"p", "r", "o", "f", "i", "l", "e">> -> "profile"
              [] t = <<"c", "l", "e", "a", "r">> -> "clear"
              [] OTHER -> "help"

\* the iteration did what branch b is to do, and nothing else
DispatchedAs(b, line, delims) ==
    /\ BranchTaken = b
    /\ (b # "chat" => g = NoGen /\ client_calls = <<>> /\ Writes = <<>>)
    /\ (b = "exit" => store_calls = <<>> /\ shell.pc = "exited")
    /\ (b = "search" =>
           /\ Len(store_calls) = 1
           /\ store_calls[1].call = "search"
           /\ store_calls[1].query = AfterToken(Tail(line), delims))
    /\ (b = "profile" =>
           /\ Len(store_calls) = 1
           /\ store_calls[1].call = "search"
           /\ store_calls[1].query = Summary)
    /\ (b = "clear" => Len(store_calls) = 1 /\ store_calls[1].call = "clear")
    /\ (b = "help" => store_calls = <<>> /\ shell.out = <<Help>> /\ shell.pc = "input")
    /\ (b = "chat" => op.message = Strip(line) /\ op.stream /\ op.store_memory)

\* C9 as stated: the line input() returned selects the action: with a leading
\* "/" by its first whitespace-delimited token, without one it is forwarded
\* to chat_with_memories.
C9_Original == Dispatched => DispatchedAs(Selected(shell.raw, Whitespace), shell.raw, Whitespace)

\* C9, amended: the line is stripped of surrounding whitespace first; if what
\* is left begins with "/" it is never forwarded to chat_with_memories and
\* triggers exactly the action selected by the text between the "/" and the
\* first space character, compared case-insensitively (exit: the loop ends
\* with no store or client call; search followed by a space and a query: one
\* memory search for all that follows that space; profile: one profile
\* fetch; clear: one delete-user; anything else, search without a query
\* included: only the help message); any other line is forwarded, stripped,
\* to chat_with_memories with stream=True and store_memory=True.
C9_DispatchOnStrippedLine ==
    Dispatched => DispatchedAs(Selected(shell.user_input, {" "}), shell.user_input, {" "})

\* a mixed-case /Search with a query of several words has searched the store
C9_Witness ==
    /\ Dispatched
    /\ shell.raw = <<"/", "S", "e", "a", "r", "c", "h", " ", " ", "q", " ", "r">>
    /\ Len(store_calls) = 1
    /\ store_calls[1].query = <<" ", "q", " ", "r">>
    /\ shell.pc = "input"

\* an error or an interrupt has reached the handlers of the loop
RaisedToLoop == ret.kind = "raise" /\ shell.pc # "chat"

LastPrinted == shell.out[Len(shell.out)]

\* C6 as stated: whenever an interrupt or any error is raised during a turn
\* the loop continues with the next input(); the loop ends only on /exit.
C6_Original ==
    /\ (RaisedToLoop => shell.pc = "input")
    /\ (shell.pc = "exited" => op.name = "exit")

\* C6, amended: any raised error other than an interrupt (any Exception)
\* that occurs during a turn, while reading input, dispatching a command or
\* consuming the streamed reply, is caught at the loop level, printed, and
\* the loop continues with the next input(); an interrupt that reaches the
\* loop level is caught too, but prints a goodbye and ends the loop; the
\* loop ends only on the exit command or on such an interrupt.
C6_ErrorsContinueInterruptsEnd ==
    /\ shell.pc \in {"input", "dispatch", "chat", "exited"}
    /\ ((RaisedToLoop /\ ret.val # "KeyboardInterrupt") =>
           /\ shell.pc = "input"
           /\ shell.caught = ret.val
           /\ LastPrinted = <<"Error: ", ret.val>>)
    /\ ((RaisedToLoop /\ ret.val = "KeyboardInterrupt") =>
           /\ shell.pc = "exited"
           /\ LastPrinted = <<"Goodbye!">>)
    /\ (shell.pc = "exited" =>
           op.name = "exit" \/ shell.caught = "KeyboardInterrupt")

\* an error raised mid-stream, after a fragment was printed, was caught and
\* the shell is back at input()
C6_Witness ==
    /\ IsChat
    /\ yielded # <<>>
    /\ ret = Raised("Exception")
    /\ shell.pc = "input"
    /\ LastPrinted = <<"Error: ", "Exception">>

\* C7: delete_user returns False, and lets no error escape, whenever the
\* purge of the store raises (an Exception or an interrupt), and True when
\* the purge succeeds; in the shell /clear then prints the failure message
\* (the success message) and the loop is at the next input().
C7_DeleteUserNeverRaises ==
    op.name = "MemoryManager.delete_user" =>
        /\ Len(store_calls) = 1
        /\ store_calls[1].call = "clear"
        /\ ret = Returned(store_calls[1].outcome = "ok")
        /\ shell.pc = "input"
        /\ shell.caught = "none"
        /\ shell.out = IF store_calls[1].outcome = "ok"
                       THEN <<<<"Chat history cleared.">>>>
                       ELSE <<<<"Failed to clear chat history.">>>>

\* the purge was interrupted: /clear reported the failure and the loop goes on
C7_Witness ==
    /\ op.name = "MemoryManager.delete_user"
    /\ store_calls[1].outcome = "KeyboardInterrupt"
    /\ ret = Returned(FALSE)
    /\ shell.out = <<<<"Failed to clear chat history.">>>>
    /\ shell.pc = "input"

====
